---- MODULE Spec2Model ----
(***************************************************************************)
(* Model of the chat-completion gateway of ai-chat-platform/backend:       *)
(*   app/api/v1/chat.py      create_chat_completion, stream_chat_response  *)
(*   app/services/quota.py   QuotaService.check_quota / enforce_quota      *)
(*   app/services/usage.py   UsageService.record_usage                     *)
(*   app/services/ai/*.py    provider adapters and their factory           *)
(* Each request is a process whose position (pc) advances one call of the  *)
(* handler at a time; the store (conversations, messages, usage_records),  *)
(* the quota source and the provider are collaborators whose outcomes      *)
(* (a value or an exception) are chosen nondeterministically.              *)
(***************************************************************************)
EXTENDS Integers, Sequences, FiniteSets, TLC

\* ---------------------------------------------------------------- bounds
\* Most fragments one adapter stream yields before it ends or raises.
MaxFragments == 2

\* ------------------------------------------------------------ value sets
\* Concurrent requests of one user.
Requests == {1, 2}

\* Python's None where a field is optional.
None == "None"

\* schemas.py AIProvider
AIProvider == {"claude", "openai", "gemini"}

\* Text fragments a provider stream can yield.
Fragments == {"Hel", "lo"}

\* Exceptions: the class decides which except clause catches them, the
\* message (a sequence of string parts) is what str(e) gives.
ValueError(msg) == [cls |-> "ValueError", msg |-> msg]

Exception(msg) == [cls |-> "Exception", msg |-> msg]

\* Faults the provider SDKs raise out of generate_response/stream_response.
AdapterErrors == {Exception(<<"provider timeout">>), ValueError(<<"response blocked">>)}

\* Fault of the store client (.execute() raising).
StoreError == Exception(<<"store unavailable">>)

\* ------------------------------------------------------------- variables
VARIABLES
    pc,             \* request -> position in create_chat_completion / stream_chat_response
    request,        \* request -> the ChatRequest (NoRequest before it is submitted)
    lookup,         \* request -> what check_quota's two lookups returned (<<>> when unset)
    quota_info,     \* request -> the dict check_quota returned (<<>> when unset)
    provider,       \* request -> the adapter instance created for it (NoAdapter before)
    conversation_id,\* request -> conversation id in use (None before)
    completion,     \* request -> the dict generate_response returned (NoCompletion before)
    full_content,   \* request -> accumulator of stream_chat_response
    tokens_used,    \* request -> tokens_used local of stream_chat_response
    chunk,          \* request -> fragment received from the adapter, not yet emitted
    fragments,      \* request -> every fragment the adapter yielded so far, in order
    frames,         \* request -> the frames yielded to the transport so far, in order
    response,       \* request -> what the endpoint returned or raised (NoResponse while running)
    events,         \* request -> log of the calls the request completed, in order
    raised,         \* request -> the exceptions raised inside the request, in order
    conversations,  \* store: rows of table conversations
    messages,       \* store: rows of table messages
    usage_records,  \* store: rows of table usage_records
    base_usage,     \* tokens the user had used this month before these requests
    settings        \* config.py Settings: the provider API keys, fixed at startup

vars == <<pc, request, lookup, quota_info, provider, conversation_id, completion,
          full_content, tokens_used, chunk, fragments, frames, response, events,
          raised, conversations, messages, usage_records, base_usage, settings>>

\* --------------------------------------------------------------- helpers
RECURSIVE SumTokens(_)
SumTokens(S) ==
    IF S = {} THEN 0
    ELSE LET x == CHOOSE y \in S : TRUE
         IN  x.tokens_used + SumTokens(S \ {x})

Max(a, b) == IF a >= b THEN a ELSE b

\* dict.get(key, default)
DictGet(d, key, default) == IF key \in DOMAIN d THEN d[key] ELSE default

\* ------------------------------------------------------- quota (quota.py)
TIER_LIMITS == [free |-> 100000, pro |-> 1000000, enterprise |-> 10000000]

\* Default of enforce_quota's estimated_tokens; create_chat_completion passes none.
DefaultEstimatedTokens == 1000

\* Rows the user_profiles lookup can return in .data: no subscription_tier
\* key, a known tier, a tier outside the table, or a null tier.
NoTierRow == [k \in {} |-> None]

ProfileRows == {NoTierRow} \cup [subscription_tier : {"free", "pro", "enterprise", "gold", None}]

\* Outcomes of the user_profiles lookup: it raises, .data is None, or a row.
ProfileLookups == {[kind |-> "raise"], [kind |-> "none"]}
                    \cup [kind : {"row"}, data : ProfileRows]

\* Monthly usage as the quota source computes it: what was used before plus
\* the usage records written since.
get_monthly_usage == base_usage + SumTokens(usage_records)

\* Outcomes of the get_monthly_usage rpc in the current state: it raises,
\* returns the total, or returns null when there is nothing to sum.
UsageLookups == {[kind |-> "raise"], [kind |-> "ok", data |-> get_monthly_usage]}
                  \cup (IF get_monthly_usage = 0 THEN {[kind |-> "null"]} ELSE {})

FailOpen == [tier |-> "unknown", tokens_limit |-> 0, tokens_used |-> 0,
             tokens_remaining |-> 0, has_quota |-> TRUE]

\* check_quota without the clamp: remaining = limit - used.
check_quota_unclamped(profile, usage) ==
    IF profile.kind # "row" \/ usage.kind = "raise"
    THEN FailOpen
    ELSE LET tier == DictGet(profile.data, "subscription_tier", "free")
             limit == DictGet(TIER_LIMITS, tier, TIER_LIMITS["free"])
             used == IF usage.kind = "null" THEN 0 ELSE usage.data
             remaining == limit - used
         IN  [tier |-> tier, tokens_limit |-> limit, tokens_used |-> used,
              tokens_remaining |-> remaining, has_quota |-> remaining > 0]

\* check_quota failing closed: a lookup error denies the request.
check_quota_fail_closed(profile, usage) ==
    IF profile.kind # "row" \/ usage.kind = "raise"
    THEN [FailOpen EXCEPT !.has_quota = FALSE]
    ELSE LET tier == DictGet(profile.data, "subscription_tier", "free")
             limit == DictGet(TIER_LIMITS, tier, TIER_LIMITS["free"])
             used == IF usage.kind = "null" THEN 0 ELSE usage.data
             remaining == Max(0, limit - used)
         IN  [tier |-> tier, tokens_limit |-> limit, tokens_used |-> used,
              tokens_remaining |-> remaining, has_quota |-> remaining > 0]

\* check_quota with the profile lookup in a try of its own: a failed or
\* empty profile lookup gives tier free instead of failing open.
check_quota_default_free(profile, usage) ==
    IF usage.kind = "raise"
    THEN FailOpen
    ELSE LET tier == IF profile.kind = "row"
                     THEN DictGet(profile.data, "subscription_tier", "free")
                     ELSE "free"
             limit == DictGet(TIER_LIMITS, tier, TIER_LIMITS["free"])
             used == IF usage.kind \in {"null", "skipped"} THEN 0 ELSE usage.data
             remaining == Max(0, limit - used)
         IN  [tier |-> tier, tokens_limit |-> limit, tokens_used |-> used,
              tokens_remaining |-> remaining, has_quota |-> remaining > 0]

\* QuotaService.check_quota, given what its two lookups return.
check_quota(profile, usage) ==
    IF profile.kind # "row" \/ usage.kind = "raise"
    THEN FailOpen
    ELSE LET tier == DictGet(profile.data, "subscription_tier", "free")
             limit == DictGet(TIER_LIMITS, tier, TIER_LIMITS["free"])
             used == IF usage.kind = "null" THEN 0 ELSE usage.data
             remaining == Max(0, limit - used)
         IN  [tier |-> tier, tokens_limit |-> limit, tokens_used |-> used,
              tokens_remaining |-> remaining, has_quota |-> remaining > 0]

\* The message reporting the tokens remaining where the tokens used belong.
QuotaExceededMessage_remaining(info) ==
    <<"Quota exceeded. You have used ", ToString(info.tokens_remaining),
      " of your ", ToString(info.tokens_limit), " token limit for the ",
      info.tier, " tier this month.">>

\* The message of the ValueError enforce_quota raises.
QuotaExceededMessage(info) ==
    <<"Quota exceeded. You have used ", ToString(info.tokens_used),
      " of your ", ToString(info.tokens_limit), " token limit for the ",
      info.tier, " tier this month.">>

\* enforce_quota rejecting a request whose estimate does not fit.
enforce_quota_strict(info, estimated_tokens) ==
    IF ~info.has_quota \/ info.tokens_remaining < estimated_tokens
    THEN [raises |-> TRUE, exc |-> ValueError(QuotaExceededMessage(info)), warns |-> FALSE]
    ELSE [raises |-> FALSE, exc |-> ValueError(<<>>), warns |-> FALSE]

\* enforce_quota that only logs: it warns and never raises.
enforce_quota_off(info, estimated_tokens) ==
    [raises |-> FALSE, exc |-> ValueError(<<>>), warns |-> TRUE]

\* QuotaService.enforce_quota after check_quota returned info: the exception
\* it raises (None if it returns) and whether it logs the near-limit warning.
enforce_quota(info, estimated_tokens) ==
    IF ~info.has_quota
    THEN [raises |-> TRUE, exc |-> ValueError(QuotaExceededMessage(info)), warns |-> FALSE]
    ELSE [raises |-> FALSE, exc |-> ValueError(<<>>),
          warns |-> info.tokens_remaining < estimated_tokens]

\* ------------------------------------------------ adapters (services/ai)
\* get_default_model of each adapter class.
get_default_model == [claude |-> "claude-sonnet-4-20250514", openai |-> "gpt-4-turbo-preview",
                      gemini |-> "gemini-2.0-flash"]

\* The Settings field create_provider reads for each provider.
KeyField == [claude |-> "anthropic_api_key", openai |-> "openai_api_key",
             gemini |-> "google_api_key"]

\* The message of the ValueError raised when that field is empty.
KeyMissingMessage == [claude |-> "Anthropic API key not configured",
                      openai |-> "OpenAI API key not configured",
                      gemini |-> "Google API key not configured"]

\* __init__ testing the override against None only: model if model is not None.
NewAdapter_strict(cls, api_key, model) ==
    [cls |-> cls, api_key |-> api_key,
     model |-> IF model = None THEN get_default_model[cls] ELSE model]

\* BaseAIProvider.__init__: model = model or self.get_default_model()
NewAdapter(cls, api_key, model) ==
    [cls |-> cls, api_key |-> api_key,
     model |-> IF model = None \/ model = "" THEN get_default_model[cls] ELSE model]

NoAdapter == [cls |-> None, api_key |-> None, model |-> None]

\* create_provider whose gemini branch lacks the key check.
create_provider_keyless(p, model) ==
    IF p \in AIProvider
    THEN IF settings[KeyField[p]] = "" /\ p # "gemini"
         THEN [raises |-> TRUE, adapter |-> NoAdapter,
               exc |-> ValueError(<<KeyMissingMessage[p]>>)]
         ELSE [raises |-> FALSE, adapter |-> NewAdapter(p, settings[KeyField[p]], model),
               exc |-> ValueError(<<>>)]
    ELSE [raises |-> TRUE, adapter |-> NoAdapter,
          exc |-> ValueError(<<"Unsupported AI provider: ", p>>)]

\* AIProviderFactory.create_provider: the adapter, or the ValueError raised.
create_provider(p, model) ==
    IF p \in AIProvider
    THEN IF settings[KeyField[p]] = ""
         THEN [raises |-> TRUE, adapter |-> NoAdapter,
               exc |-> ValueError(<<KeyMissingMessage[p]>>)]
         ELSE [raises |-> FALSE, adapter |-> NewAdapter(p, settings[KeyField[p]], model),
               exc |-> ValueError(<<>>)]
    ELSE [raises |-> TRUE, adapter |-> NoAdapter,
          exc |-> ValueError(<<"Unsupported AI provider: ", p>>)]

\* The estimate rounded to the nearest token instead of down.
count_tokens_rounded(text) == (Len(text) + 2) \div 4

\* count_tokens of the three adapters: len(text) // 4
count_tokens(text) == Len(text) \div 4

\* What generate_response returns on success: content, tokens_used, finish_reason.
CompletionResults == {[content |-> "Hello", tokens_used |-> 2, finish_reason |-> "stop"]}

NoCompletion == [content |-> None, tokens_used |-> 0, finish_reason |-> None]

\* ------------------------------------------- requests and store (chat.py)
UserMessage == [role |-> "user", content |-> "hi"]

\* ChatRequest as schemas.py validates it: messages is any list, also empty.
\* The request is immutable, so each field is drawn when the handler first
\* reads it (the behaviours are those of drawing it on arrival, the states
\* fewer); Unread marks a field not read yet.
Unread == "unread"

ConversationIds == {None, "conv-0"}

MessageLists == {<<>>, <<UserMessage>>}

Models == {None, "custom-model"}

NoRequest == [conversation_id |-> Unread,
              messages |-> <<[role |-> Unread, content |-> Unread]>>, provider |-> Unread,
              model |-> Unread, stream |-> FALSE]

\* Id the store gives the conversation it creates for request r.
NewConversationId(r) == "conv-" \o ToString(r)

\* Id the store gives the assistant message of request r.
NewMessageId(r) == "msg-" \o ToString(r)

NoResponse == [kind |-> "none"]

\* The except clauses of create_chat_completion: ValueError -> 400 with
\* str(e), any other Exception -> 500 with the prefixed message.
HTTPException(exc) ==
    IF exc.cls = "ValueError"
    THEN [kind |-> "HTTPException", status_code |-> 400, detail |-> exc.msg]
    ELSE [kind |-> "HTTPException", status_code |-> 500,
          detail |-> <<"Failed to generate chat completion: ">> \o exc.msg]

StreamingResponse == [kind |-> "StreamingResponse", status_code |-> 200,
                      media_type |-> "text/event-stream"]

ChatResponse(r) ==
    [kind |-> "ChatResponse", status_code |-> 200, conversation_id |-> conversation_id[r],
     message_id |-> NewMessageId(r), content |-> completion[r].content,
     provider |-> request[r].provider, model |-> provider[r].model,
     tokens_used |-> completion[r].tokens_used,
     finish_reason |-> completion[r].finish_reason]

\* Server-sent-event framing of one JSON payload: f"data: {json.dumps(payload)}\n\n"
sse(payload) == <<"data: ", payload, "\n\n">>

\* The content frame without the event-stream framing.
ContentFrame_unframed(c) == <<"", [content |-> c], "">>

ContentFrame(c) == sse([content |-> c])

DoneFrame(n) == sse([done |-> TRUE, tokens_used |-> n])

\* The error frame with a fixed message instead of str(e).
ErrorFrame_generic(e) == sse([error |-> <<"stream failed">>])

ErrorFrame(e) == sse([error |-> e.msg])

\* full_content = chunk
accumulate_overwrite(content, c) == c

\* full_content += chunk
accumulate(content, c) == content \o c

\* The row record_usage inserts.
UsageRecord(r, n) ==
    [req |-> r, conversation_id |-> conversation_id[r], provider |-> request[r].provider,
     model |-> provider[r].model, tokens_used |-> n, cost_usd |-> 0]

\* record_usage without its try/except: a failed insert raises to the caller.
record_usage_propagates(r, n, ok) ==
    [usage_records |-> IF ok THEN usage_records \cup {UsageRecord(r, n)} ELSE usage_records,
     logged |-> IF ok THEN "usage_recorded" ELSE "usage_failed",
     raises |-> ~ok]

\* UsageService.record_usage, whose insert succeeds (ok) or raises: the
\* rows of usage_records afterwards, what it logs, and whether it raises to
\* its caller (never: except Exception logs and swallows).
record_usage(r, n, ok) ==
    [usage_records |-> IF ok THEN usage_records \cup {UsageRecord(r, n)} ELSE usage_records,
     logged |-> IF ok THEN "usage_recorded" ELSE "usage_failed",
     raises |-> FALSE]

\* Configurations of the provider keys the process can be started with.
SettingsChoices ==
    {[anthropic_api_key |-> "", openai_api_key |-> "", google_api_key |-> "g-key"]}

\* Monthly usage already recorded when the requests arrive.
BaseUsage == {0, 99999}

\* ------------------------------------------------------------------ Init
Init ==
    /\ pc = [r \in Requests |-> "idle"]
    /\ request = [r \in Requests |-> NoRequest]
    /\ lookup = [r \in Requests |-> <<>>]
    /\ quota_info = [r \in Requests |-> <<>>]
    /\ provider = [r \in Requests |-> NoAdapter]
    /\ conversation_id = [r \in Requests |-> None]
    /\ completion = [r \in Requests |-> NoCompletion]
    /\ full_content = [r \in Requests |-> ""]
    /\ tokens_used = [r \in Requests |-> 0]
    /\ chunk = [r \in Requests |-> ""]
    /\ fragments = [r \in Requests |-> <<>>]
    /\ frames = [r \in Requests |-> <<>>]
    /\ response = [r \in Requests |-> NoResponse]
    /\ events = [r \in Requests |-> <<>>]
    /\ raised = [r \in Requests |-> <<>>]
    /\ conversations = {}
    /\ messages = {}
    /\ usage_records = {}
    /\ base_usage \in BaseUsage
    /\ settings \in SettingsChoices

\* --------------------------------------------- create_chat_completion
\* The request variables an action of the buffered path leaves alone.
StreamLocalsUnchanged == UNCHANGED <<full_content, tokens_used, chunk, fragments, frames>>

\* An exception reaches the except clauses of create_chat_completion.
Fail(r, exc) ==
    /\ raised' = [raised EXCEPT ![r] = Append(@, exc)]
    /\ response' = [response EXCEPT ![r] = HTTPException(exc)]
    /\ pc' = [pc EXCEPT ![r] = "done"]

\* The endpoint without its quota check.
Submit_unchecked(r) ==
    /\ pc[r] = "idle"
    /\ \A q \in Requests : q < r => pc[q] # "idle"
    /\ pc' = [pc EXCEPT ![r] = "create_provider"]
    /\ StreamLocalsUnchanged
    /\ UNCHANGED <<request, lookup, quota_info, provider, conversation_id, completion,
                   response, events, raised, conversations, messages, usage_records,
                   base_usage, settings>>

\* A validated ChatRequest arrives for an authenticated user; requests are
\* numbered in the order they arrive.
Submit(r) ==
    /\ pc[r] = "idle"
    /\ \A q \in Requests : q < r => pc[q] # "idle"
    /\ pc' = [pc EXCEPT ![r] = "check_quota"]
    /\ StreamLocalsUnchanged
    /\ UNCHANGED <<request, lookup, quota_info, provider, conversation_id, completion,
                   response, events, raised, conversations, messages, usage_records,
                   base_usage, settings>>

\* enforce_quota, first half: quota_info = await self.check_quota(user_id)
CheckQuota(r) ==
    /\ pc[r] = "check_quota"
    /\ \E p \in ProfileLookups :
       \E u \in (IF p.kind = "row" THEN UsageLookups ELSE {[kind |-> "skipped"]}) :
          /\ lookup' = [lookup EXCEPT ![r] = <<[profile |-> p, usage |-> u]>>]
          /\ quota_info' = [quota_info EXCEPT ![r] = <<check_quota(p, u)>>]
    /\ pc' = [pc EXCEPT ![r] = "enforce_quota"]
    /\ StreamLocalsUnchanged
    /\ UNCHANGED <<request, provider, conversation_id, completion, response, events,
                   raised, conversations, messages, usage_records, base_usage, settings>>

\* enforce_quota, second half: raise if not has_quota, else warn if close
\* (the warning goes to the log only and changes no state).
EnforceQuota(r) ==
    /\ pc[r] = "enforce_quota"
    /\ LET res == enforce_quota(quota_info[r][1], DefaultEstimatedTokens)
       IN  IF res.raises
           THEN /\ Fail(r, res.exc)
                /\ events' = [events EXCEPT ![r] = Append(@, "quota_rejected")]
           ELSE /\ pc' = [pc EXCEPT ![r] = "create_provider"]
                /\ events' = [events EXCEPT ![r] = Append(@, "quota_ok")]
                /\ UNCHANGED <<response, raised>>
    /\ StreamLocalsUnchanged
    /\ UNCHANGED <<request, lookup, quota_info, provider, conversation_id, completion,
                   conversations, messages, usage_records, base_usage, settings>>

\* The adapter resolved after the conversation insert instead of before it:
\* a resolution failure leaves the new conversation behind.
CreateProvider_late(r) ==
    /\ pc[r] = "create_provider"
    /\ \E p \in AIProvider, m \in Models :
         /\ request' = [request EXCEPT ![r].provider = p, ![r].model = m]
         /\ LET res == create_provider(p, m)
            IN  IF res.raises
                THEN /\ Fail(r, res.exc)
                     /\ conversations' = conversations \cup
                           {[id |-> NewConversationId(r), title |-> "New Conversation",
                             model_provider |-> p, model_name |-> m]}
                     /\ UNCHANGED provider
                ELSE /\ provider' = [provider EXCEPT ![r] = res.adapter]
                     /\ pc' = [pc EXCEPT ![r] = "get_conversation"]
                     /\ UNCHANGED <<response, raised, conversations>>
    /\ lookup' = [lookup EXCEPT ![r] = <<>>]
    /\ quota_info' = [quota_info EXCEPT ![r] = <<>>]
    /\ StreamLocalsUnchanged
    /\ UNCHANGED <<conversation_id, completion, events,
                   messages, usage_records, base_usage, settings>>

\* provider = AIProviderFactory.create_provider(request.provider, request.model)
CreateProvider(r) ==
    /\ pc[r] = "create_provider"
    /\ \E p \in AIProvider, m \in Models :
         /\ request' = [request EXCEPT ![r].provider = p, ![r].model = m]
         /\ LET res == create_provider(p, m)
            IN  IF res.raises
                THEN /\ Fail(r, res.exc)
                     /\ UNCHANGED provider
                ELSE /\ provider' = [provider EXCEPT ![r] = res.adapter]
                     /\ pc' = [pc EXCEPT ![r] = "get_conversation"]
                     /\ UNCHANGED <<response, raised>>
    /\ lookup' = [lookup EXCEPT ![r] = <<>>]
    /\ quota_info' = [quota_info EXCEPT ![r] = <<>>]
    /\ StreamLocalsUnchanged
    /\ UNCHANGED <<conversation_id, completion, events,
                   conversations, messages, usage_records, base_usage, settings>>

\* Get or create conversation: the insert happens only without a conversation_id.
GetOrCreateConversation(r) ==
    /\ pc[r] = "get_conversation"
    /\ \E c \in ConversationIds :
       /\ request' = [request EXCEPT ![r].conversation_id = c]
       /\ IF c # None
          THEN /\ conversation_id' = [conversation_id EXCEPT ![r] = c]
               /\ pc' = [pc EXCEPT ![r] = "save_user_message"]
               /\ UNCHANGED <<conversations, response, events, raised>>
          ELSE \E ok \in BOOLEAN :
            IF ok
            THEN /\ conversations' = conversations \cup
                       {[id |-> NewConversationId(r), title |-> "New Conversation",
                         model_provider |-> request[r].provider,
                         model_name |-> provider[r].model]}
                 /\ conversation_id' = [conversation_id EXCEPT ![r] = NewConversationId(r)]
                 /\ events' = [events EXCEPT ![r] = Append(@, "conversation_created")]
                 /\ pc' = [pc EXCEPT ![r] = "save_user_message"]
                 /\ UNCHANGED <<response, raised>>
            ELSE /\ Fail(r, StoreError)
                 /\ UNCHANGED <<conversations, conversation_id, events>>
    /\ StreamLocalsUnchanged
    /\ UNCHANGED <<lookup, quota_info, provider, completion,
                   messages, usage_records, base_usage, settings>>

\* Save user message (request.messages[-1]), then branch on request.stream:
\* the streaming branch returns the StreamingResponse at once.
SaveUserMessage(r) ==
    /\ pc[r] = "save_user_message"
    /\ \E ms \in MessageLists :
       IF ms = <<>>
       THEN /\ request' = [request EXCEPT ![r].messages = ms]
            /\ Fail(r, Exception(<<"list index out of range">>))
            /\ UNCHANGED <<messages, events>>
       ELSE \E ok \in BOOLEAN :
            IF ok
            THEN /\ messages' = messages \cup
                       {[req |-> r, conversation_id |-> conversation_id[r], role |-> "user",
                         content |-> ms[Len(ms)].content, tokens_used |-> 0]}
                 /\ events' = [events EXCEPT ![r] = Append(@, "user_message_saved")]
                 /\ \E st \in BOOLEAN :
                      /\ request' = [request EXCEPT ![r].messages = ms, ![r].stream = st]
                      /\ IF st
                         THEN /\ response' = [response EXCEPT ![r] = StreamingResponse]
                              /\ pc' = [pc EXCEPT ![r] = "stream_open"]
                              /\ UNCHANGED raised
                         ELSE /\ pc' = [pc EXCEPT ![r] = "generate"]
                              /\ UNCHANGED <<response, raised>>
            ELSE /\ request' = [request EXCEPT ![r].messages = ms]
                 /\ Fail(r, StoreError)
                 /\ UNCHANGED <<messages, events>>
    /\ StreamLocalsUnchanged
    /\ UNCHANGED <<lookup, quota_info, provider, conversation_id, completion,
                   conversations, usage_records, base_usage, settings>>

\* response = await provider.generate_response(...): the call is issued.
CallGenerate(r) ==
    /\ pc[r] = "generate"
    /\ pc' = [pc EXCEPT ![r] = "await_generate"]
    /\ events' = [events EXCEPT ![r] = Append(@, "provider_call")]
    /\ StreamLocalsUnchanged
    /\ UNCHANGED <<request, lookup, quota_info, provider, conversation_id, completion,
                   response, raised, conversations, messages, usage_records, base_usage,
                   settings>>

\* A failed generate_response undone in the store: the conversation the
\* request created and its user message are deleted again.
GenerateReturns_rollback(r) ==
    /\ pc[r] = "await_generate"
    /\ \/ \E c \in CompletionResults :
            /\ completion' = [completion EXCEPT ![r] = c]
            /\ events' = [events EXCEPT ![r] = Append(@, "provider_final")]
            /\ pc' = [pc EXCEPT ![r] = "save_assistant"]
            /\ UNCHANGED <<response, raised, conversations, messages>>
       \/ \E e \in AdapterErrors :
            /\ Fail(r, e)
            /\ events' = [events EXCEPT ![r] = Append(@, "provider_error")]
            /\ conversations' = {c \in conversations : c.id # NewConversationId(r)}
            /\ messages' = {m \in messages : m.req # r}
            /\ UNCHANGED completion
    /\ StreamLocalsUnchanged
    /\ UNCHANGED <<request, lookup, quota_info, provider, conversation_id,
                   usage_records, base_usage, settings>>

\* generate_response returns the completion, or raises what the SDK raised.
GenerateReturns(r) ==
    /\ pc[r] = "await_generate"
    /\ \/ \E c \in CompletionResults :
            /\ completion' = [completion EXCEPT ![r] = c]
            /\ events' = [events EXCEPT ![r] = Append(@, "provider_final")]
            /\ pc' = [pc EXCEPT ![r] = "save_assistant"]
            /\ UNCHANGED <<response, raised>>
       \/ \E e \in AdapterErrors :
            /\ Fail(r, e)
            /\ events' = [events EXCEPT ![r] = Append(@, "provider_error")]
            /\ UNCHANGED completion
    /\ StreamLocalsUnchanged
    /\ UNCHANGED <<request, lookup, quota_info, provider, conversation_id,
                   conversations, messages, usage_records, base_usage, settings>>

\* The assistant insert with its failure logged and swallowed, as
\* record_usage does.
SaveAssistantMessage_lenient(r) ==
    /\ pc[r] = "save_assistant"
    /\ \E ok \in BOOLEAN :
       IF ok
       THEN /\ messages' = messages \cup
                  {[req |-> r, conversation_id |-> conversation_id[r], role |-> "assistant",
                    content |-> completion[r].content,
                    tokens_used |-> completion[r].tokens_used]}
            /\ events' = [events EXCEPT ![r] = Append(@, "assistant_message_saved")]
       ELSE UNCHANGED <<messages, events>>
    /\ pc' = [pc EXCEPT ![r] = "record_usage"]
    /\ UNCHANGED <<response, raised>>
    /\ StreamLocalsUnchanged
    /\ UNCHANGED <<request, lookup, quota_info, provider, conversation_id, completion,
                   conversations, usage_records, base_usage, settings>>

\* Save assistant message (buffered path).
SaveAssistantMessage(r) ==
    /\ pc[r] = "save_assistant"
    /\ \E ok \in BOOLEAN :
       IF ok
       THEN /\ messages' = messages \cup
                  {[req |-> r, conversation_id |-> conversation_id[r], role |-> "assistant",
                    content |-> completion[r].content,
                    tokens_used |-> completion[r].tokens_used]}
            /\ events' = [events EXCEPT ![r] = Append(@, "assistant_message_saved")]
            /\ pc' = [pc EXCEPT ![r] = "record_usage"]
            /\ UNCHANGED <<response, raised>>
       ELSE /\ Fail(r, StoreError)
            /\ UNCHANGED <<messages, events>>
    /\ StreamLocalsUnchanged
    /\ UNCHANGED <<request, lookup, quota_info, provider, conversation_id, completion,
                   conversations, usage_records, base_usage, settings>>

\* The usage write retried once when the insert fails.
RecordUsageAndReturn_retry(r) ==
    /\ pc[r] = "record_usage"
    /\ \E ok \in BOOLEAN :
       LET res == record_usage(r, completion[r].tokens_used, ok)
           again == record_usage(r, completion[r].tokens_used, TRUE)
       IN  /\ usage_records' = IF ok THEN res.usage_records ELSE again.usage_records
           /\ events' = [events EXCEPT ![r] =
                            IF ok THEN Append(@, res.logged)
                            ELSE @ \o <<res.logged, again.logged>>]
           /\ response' = [response EXCEPT ![r] = ChatResponse(r)]
           /\ pc' = [pc EXCEPT ![r] = "done"]
           /\ UNCHANGED raised
    /\ StreamLocalsUnchanged
    /\ UNCHANGED <<request, lookup, quota_info, provider, conversation_id, completion,
                   conversations, messages, base_usage, settings>>

\* Record usage, then return the ChatResponse (buffered path).
RecordUsageAndReturn(r) ==
    /\ pc[r] = "record_usage"
    /\ \E ok \in BOOLEAN :
       LET res == record_usage(r, completion[r].tokens_used, ok)
       IN  /\ usage_records' = res.usage_records
           /\ events' = [events EXCEPT ![r] = Append(@, res.logged)]
           /\ IF res.raises
              THEN Fail(r, StoreError)
              ELSE /\ response' = [response EXCEPT ![r] = ChatResponse(r)]
                   /\ pc' = [pc EXCEPT ![r] = "done"]
                   /\ UNCHANGED raised
    /\ StreamLocalsUnchanged
    /\ UNCHANGED <<request, lookup, quota_info, provider, conversation_id, completion,
                   conversations, messages, base_usage, settings>>

\* ------------------------------------------------ stream_chat_response
\* The variables of the endpoint an action of the generator leaves alone.
EndpointUnchanged ==
    UNCHANGED <<request, lookup, quota_info, provider, conversation_id, completion,
                response, conversations, base_usage, settings>>

\* except Exception as e: log only, yield nothing.
stream_except_silent(r, e) ==
    /\ raised' = [raised EXCEPT ![r] = Append(@, e)]
    /\ UNCHANGED frames
    /\ pc' = [pc EXCEPT ![r] = "closed"]

\* except Exception as e: yield the error frame; the generator then ends.
stream_except(r, e) ==
    /\ raised' = [raised EXCEPT ![r] = Append(@, e)]
    /\ frames' = [frames EXCEPT ![r] = Append(@, ErrorFrame(e))]
    /\ pc' = [pc EXCEPT ![r] = "closed"]

\* The transport starts iterating the generator: provider.stream_response(...)
\* is called and its first fragment requested.
StartStream(r) ==
    /\ pc[r] = "stream_open"
    /\ pc' = [pc EXCEPT ![r] = "stream_next"]
    /\ events' = [events EXCEPT ![r] = Append(@, "provider_call")]
    /\ EndpointUnchanged
    /\ UNCHANGED <<full_content, tokens_used, chunk, fragments, frames, raised,
                   messages, usage_records>>

\* async for chunk in provider.stream_response(...): the adapter yields a fragment.
AdapterYields(r) ==
    /\ pc[r] = "stream_next"
    /\ Len(fragments[r]) < MaxFragments
    /\ \E f \in Fragments :
         /\ chunk' = [chunk EXCEPT ![r] = f]
         /\ fragments' = [fragments EXCEPT ![r] = Append(@, f)]
    /\ pc' = [pc EXCEPT ![r] = "emit_content"]
    /\ EndpointUnchanged
    /\ UNCHANGED <<full_content, tokens_used, frames, events, raised, messages,
                   usage_records>>

\* The loop body with a usage write per fragment, while the adapter still streams.
EmitContent_metered(r) ==
    /\ pc[r] = "emit_content"
    /\ full_content' = [full_content EXCEPT ![r] = accumulate(@, chunk[r])]
    /\ frames' = [frames EXCEPT ![r] = Append(@, ContentFrame(chunk[r]))]
    /\ usage_records' = usage_records \cup {UsageRecord(r, count_tokens(full_content'[r]))}
    /\ events' = [events EXCEPT ![r] = Append(@, "usage_recorded")]
    /\ pc' = [pc EXCEPT ![r] = "stream_next"]
    /\ EndpointUnchanged
    /\ UNCHANGED <<tokens_used, chunk, fragments, raised, messages>>

\* The loop body with one accumulator shared by all the generators (a
\* module-level buffer) instead of the generator's local.
EmitContent_shared(r) ==
    /\ pc[r] = "emit_content"
    /\ full_content' = [q \in Requests |-> accumulate(full_content[q], chunk[r])]
    /\ frames' = [frames EXCEPT ![r] = Append(@, ContentFrame(chunk[r]))]
    /\ pc' = [pc EXCEPT ![r] = "stream_next"]
    /\ EndpointUnchanged
    /\ UNCHANGED <<tokens_used, chunk, fragments, events, raised, messages, usage_records>>

\* full_content += chunk; yield the content frame.
EmitContent(r) ==
    /\ pc[r] = "emit_content"
    /\ full_content' = [full_content EXCEPT ![r] = accumulate(@, chunk[r])]
    /\ frames' = [frames EXCEPT ![r] = Append(@, ContentFrame(chunk[r]))]
    /\ pc' = [pc EXCEPT ![r] = "stream_next"]
    /\ EndpointUnchanged
    /\ UNCHANGED <<tokens_used, chunk, fragments, events, raised, messages, usage_records>>

\* The adapter's failure reported as an HTTP failure response when no content
\* frame has been sent yet, and as an error frame only afterwards.
AdapterRaises_structured(r) ==
    /\ pc[r] = "stream_next"
    /\ \E e \in AdapterErrors :
         IF frames[r] = <<>>
         THEN Fail(r, e) /\ UNCHANGED frames
         ELSE stream_except(r, e) /\ UNCHANGED response
    /\ events' = [events EXCEPT ![r] = Append(@, "provider_error")]
    /\ UNCHANGED <<request, lookup, quota_info, provider, conversation_id, completion,
                   conversations, base_usage, settings>>
    /\ UNCHANGED <<full_content, tokens_used, chunk, fragments, messages, usage_records>>

\* The adapter raises while the next fragment is awaited.
AdapterRaises(r) ==
    /\ pc[r] = "stream_next"
    /\ \E e \in AdapterErrors : stream_except(r, e)
    /\ events' = [events EXCEPT ![r] = Append(@, "provider_error")]
    /\ EndpointUnchanged
    /\ UNCHANGED <<full_content, tokens_used, chunk, fragments, messages, usage_records>>

\* The stream's end with the assistant message saved before the tokens are
\* counted, so with the initial tokens_used of 0.
StreamCompletes_uncounted(r) ==
    /\ pc[r] = "stream_next"
    /\ tokens_used' = [tokens_used EXCEPT ![r] = count_tokens(full_content[r])]
    /\ \E ok \in BOOLEAN :
       IF ok
       THEN /\ messages' = messages \cup
                  {[req |-> r, conversation_id |-> conversation_id[r], role |-> "assistant",
                    content |-> full_content[r], tokens_used |-> tokens_used[r]]}
            /\ events' = [events EXCEPT ![r] = @ \o <<"provider_final", "assistant_message_saved">>]
            /\ pc' = [pc EXCEPT ![r] = "record_usage_stream"]
            /\ UNCHANGED <<frames, raised>>
       ELSE /\ stream_except(r, StoreError)
            /\ events' = [events EXCEPT ![r] = Append(@, "provider_final")]
            /\ UNCHANGED messages
    /\ EndpointUnchanged
    /\ UNCHANGED <<full_content, chunk, fragments, usage_records>>

\* The adapter's stream ends: count the tokens and save the assistant
\* message; a failing insert is caught by except Exception.
StreamCompletes(r) ==
    /\ pc[r] = "stream_next"
    /\ tokens_used' = [tokens_used EXCEPT ![r] = count_tokens(full_content[r])]
    /\ \E ok \in BOOLEAN :
       IF ok
       THEN /\ messages' = messages \cup
                  {[req |-> r, conversation_id |-> conversation_id[r], role |-> "assistant",
                    content |-> full_content[r], tokens_used |-> tokens_used'[r]]}
            /\ events' = [events EXCEPT ![r] = @ \o <<"provider_final", "assistant_message_saved">>]
            /\ pc' = [pc EXCEPT ![r] = "record_usage_stream"]
            /\ UNCHANGED <<frames, raised>>
       ELSE /\ stream_except(r, StoreError)
            /\ events' = [events EXCEPT ![r] = Append(@, "provider_final")]
            /\ UNCHANGED messages
    /\ EndpointUnchanged
    /\ UNCHANGED <<full_content, chunk, fragments, usage_records>>

\* Record usage, then yield the done frame; the generator ends.
RecordUsageAndFinish(r) ==
    /\ pc[r] = "record_usage_stream"
    /\ \E ok \in BOOLEAN :
       LET res == record_usage(r, tokens_used[r], ok)
       IN  /\ usage_records' = res.usage_records
           /\ events' = [events EXCEPT ![r] = Append(@, res.logged)]
           /\ IF res.raises
              THEN stream_except(r, StoreError)
              ELSE /\ frames' = [frames EXCEPT ![r] = Append(@, DoneFrame(tokens_used[r]))]
                   /\ pc' = [pc EXCEPT ![r] = "closed"]
                   /\ UNCHANGED raised
    /\ EndpointUnchanged
    /\ UNCHANGED <<full_content, tokens_used, chunk, fragments, messages>>

\* The disconnect with a generator that catches the cancellation as it
\* catches Exception, and yields the error frame.
ClientDisconnects_caught(r) ==
    /\ pc[r] \in {"stream_open", "stream_next"}
    /\ stream_except(r, Exception(<<"cancelled">>))
    /\ events' = [events EXCEPT ![r] = Append(@, "cancelled")]
    /\ EndpointUnchanged
    /\ UNCHANGED <<full_content, tokens_used, chunk, fragments, messages, usage_records>>

\* The client disconnects while the generator is suspended (before it
\* starts, at a yield, or awaiting the adapter): the task is cancelled, which
\* except Exception does not catch.
ClientDisconnects(r) ==
    /\ pc[r] \in {"stream_open", "stream_next"}
    /\ pc' = [pc EXCEPT ![r] = "cancelled"]
    /\ events' = [events EXCEPT ![r] = Append(@, "cancelled")]
    /\ EndpointUnchanged
    /\ UNCHANGED <<full_content, tokens_used, chunk, fragments, frames, raised,
                   messages, usage_records>>

\* ------------------------------------------------------------------ Next
Next ==
    \E r \in Requests :
        \/ Submit(r)
        \/ CheckQuota(r)
        \/ EnforceQuota(r)
        \/ CreateProvider(r)
        \/ GetOrCreateConversation(r)
        \/ SaveUserMessage(r)
        \/ CallGenerate(r)
        \/ GenerateReturns(r)
        \/ SaveAssistantMessage(r)
        \/ RecordUsageAndReturn(r)
        \/ StartStream(r)
        \/ AdapterYields(r)
        \/ EmitContent(r)
        \/ AdapterRaises(r)
        \/ StreamCompletes(r)
        \/ RecordUsageAndFinish(r)
        \/ ClientDisconnects(r)

Spec == Init /\ [][Next]_vars

\* ------------------------------------------------ count_tokens on its own
\* The longest text count_tokens is applied to.
MaxTextLen == 9

RECURSIVE Pad(_)
Pad(n) == IF n = 0 THEN "" ELSE "x" \o Pad(n - 1)

\* The texts counted: one of every length up to MaxTextLen.
Texts == {Pad(n) : n \in 0..MaxTextLen}

CountInit ==
    /\ pc = [r \in Requests |-> "idle"]
    /\ request = [r \in Requests |-> NoRequest]
    /\ lookup = [r \in Requests |-> <<>>]
    /\ quota_info = [r \in Requests |-> <<>>]
    /\ provider = [r \in Requests |-> NoAdapter]
    /\ conversation_id = [r \in Requests |-> None]
    /\ completion = [r \in Requests |-> NoCompletion]
    /\ full_content \in [Requests -> Texts]
    /\ tokens_used = [r \in Requests |-> 0]
    /\ chunk = [r \in Requests |-> ""]
    /\ fragments = [r \in Requests |-> <<>>]
    /\ frames = [r \in Requests |-> <<>>]
    /\ response = [r \in Requests |-> NoResponse]
    /\ events = [r \in Requests |-> <<>>]
    /\ raised = [r \in Requests |-> <<>>]
    /\ conversations = {}
    /\ messages = {}
    /\ usage_records = {}
    /\ base_usage = 0
    /\ settings \in SettingsChoices

\* tokens_used = provider.count_tokens(full_content), for an adapter of any
\* of the three classes.
CountTokens(r) ==
    /\ pc[r] = "idle"
    /\ \E p \in AIProvider : request' = [request EXCEPT ![r].provider = p]
    /\ tokens_used' = [tokens_used EXCEPT ![r] = count_tokens(full_content[r])]
    /\ pc' = [pc EXCEPT ![r] = "done"]
    /\ UNCHANGED <<lookup, quota_info, provider, conversation_id, completion, full_content,
                   chunk, fragments, frames, response, events, raised, conversations,
                   messages, usage_records, base_usage, settings>>

CountNext == \E r \in Requests : CountTokens(r)

CountSpec == CountInit /\ [][CountNext]_vars

\* ------------------------------------------------ the factory on its own
\* AIProviderFactory.create_provider called directly, once per slot of
\* Requests, over every configuration of the three keys, every provider
\* value (one outside the enumeration included) and every kind of override.
AllSettings ==
    [anthropic_api_key : {"", "sk-ant"}, openai_api_key : {"", "sk-oai"},
     google_api_key : {"", "g-key"}]

FactoryProviders == AIProvider \cup {"mistral"}

FactoryModels == Models \cup {""}

FactoryInit ==
    /\ pc = [r \in Requests |-> "idle"]
    /\ request = [r \in Requests |-> NoRequest]
    /\ lookup = [r \in Requests |-> <<>>]
    /\ quota_info = [r \in Requests |-> <<>>]
    /\ provider = [r \in Requests |-> NoAdapter]
    /\ conversation_id = [r \in Requests |-> None]
    /\ completion = [r \in Requests |-> NoCompletion]
    /\ full_content = [r \in Requests |-> ""]
    /\ tokens_used = [r \in Requests |-> 0]
    /\ chunk = [r \in Requests |-> ""]
    /\ fragments = [r \in Requests |-> <<>>]
    /\ frames = [r \in Requests |-> <<>>]
    /\ response = [r \in Requests |-> NoResponse]
    /\ events = [r \in Requests |-> <<>>]
    /\ raised = [r \in Requests |-> <<>>]
    /\ conversations = {}
    /\ messages = {}
    /\ usage_records = {}
    /\ base_usage = 0
    /\ settings \in AllSettings

\* provider = AIProviderFactory.create_provider(p, m): the adapter is kept,
\* or the ValueError raised to the caller.
FactoryCreate(r) ==
    /\ pc[r] = "idle"
    /\ \E p \in FactoryProviders, m \in FactoryModels :
         /\ request' = [request EXCEPT ![r].provider = p, ![r].model = m]
         /\ LET res == create_provider(p, m)
            IN  IF res.raises
                THEN /\ raised' = [raised EXCEPT ![r] = Append(@, res.exc)]
                     /\ UNCHANGED provider
                ELSE /\ provider' = [provider EXCEPT ![r] = res.adapter]
                     /\ UNCHANGED raised
    /\ pc' = [pc EXCEPT ![r] = "done"]
    /\ StreamLocalsUnchanged
    /\ UNCHANGED <<lookup, quota_info, conversation_id, completion, response, events,
                   conversations, messages, usage_records, base_usage, settings>>

FactoryNext == \E r \in Requests : FactoryCreate(r)

FactorySpec == FactoryInit /\ [][FactoryNext]_vars

\* ------------------------------------------------ one free-tier user
\* The requests of one user whose profile row says free, with both quota
\* lookups succeeding: every lookup a request makes finds that row.
FreeUser ==
    \A r \in Requests :
        lookup'[r] # <<>> =>
            /\ lookup'[r][1].profile = [kind |-> "row", data |-> [subscription_tier |-> "free"]]
            /\ lookup'[r][1].usage.kind \in {"ok", "null"}

FreeUserNext == Next /\ FreeUser

FreeUserSpec == Init /\ [][FreeUserNext]_vars

\* ------------------------------------------------ health endpoints
\* JSONResponse(content=...): the status code defaults to 200.
JSONResponse(content) == [kind |-> "JSONResponse", status_code |-> 200, content |-> content]

\* GET /health
health_check ==
    JSONResponse([status |-> "healthy", service |-> "ai-chat-platform-backend"])

\* A readiness check that looks at the configuration: not ready, 503, when no
\* provider key is set.
readiness_check_configured ==
    IF \A p \in AIProvider : settings[KeyField[p]] = ""
    THEN [kind |-> "JSONResponse", status_code |-> 503,
          content |-> [status |-> "not ready", service |-> "ai-chat-platform-backend"]]
    ELSE JSONResponse([status |-> "ready", service |-> "ai-chat-platform-backend"])

\* GET /ready
readiness_check ==
    JSONResponse([status |-> "ready", service |-> "ai-chat-platform-backend"])

\* Who calls: the routes of health.py declare no dependency, so the caller
\* may or may not carry a valid token.
Callers == {"anonymous", "authenticated"}

\* The process under any key configuration and any recorded usage; each
\* slot of Requests is one probe, by a caller of either kind.
HealthInit ==
    /\ pc = [r \in Requests |-> "idle"]
    /\ request = [r \in Requests |-> NoRequest]
    /\ lookup = [r \in Requests |-> <<>>]
    /\ quota_info = [r \in Requests |-> <<>>]
    /\ provider = [r \in Requests |-> NoAdapter]
    /\ conversation_id = [r \in Requests |-> None]
    /\ completion = [r \in Requests |-> NoCompletion]
    /\ full_content = [r \in Requests |-> ""]
    /\ tokens_used = [r \in Requests |-> 0]
    /\ chunk = [r \in Requests |-> ""]
    /\ fragments = [r \in Requests |-> <<>>]
    /\ frames = [r \in Requests |-> <<>>]
    /\ response = [r \in Requests |-> NoResponse]
    /\ events \in [Requests -> {<<c>> : c \in Callers}]
    /\ raised = [r \in Requests |-> <<>>]
    /\ conversations = {}
    /\ messages = {}
    /\ usage_records = {}
    /\ base_usage \in BaseUsage
    /\ settings \in AllSettings

\* The variables neither probe touches.
ProbeUnchanged ==
    UNCHANGED <<request, lookup, quota_info, provider, conversation_id, completion,
                full_content, tokens_used, chunk, fragments, frames, raised,
                conversations, messages, usage_records, base_usage, settings>>

HealthCheck(r) ==
    /\ pc[r] = "idle"
    /\ response' = [response EXCEPT ![r] = health_check]
    /\ events' = [events EXCEPT ![r] = Append(@, "GET /api/v1/health")]
    /\ pc' = [pc EXCEPT ![r] = "done"]
    /\ ProbeUnchanged

ReadinessCheck(r) ==
    /\ pc[r] = "idle"
    /\ response' = [response EXCEPT ![r] = readiness_check]
    /\ events' = [events EXCEPT ![r] = Append(@, "GET /api/v1/ready")]
    /\ pc' = [pc EXCEPT ![r] = "done"]
    /\ ProbeUnchanged

HealthNext == \E r \in Requests : HealthCheck(r) \/ ReadinessCheck(r)

HealthSpec == HealthInit /\ [][HealthNext]_vars

\* ================================================================ claims
\* Helpers of the properties below.
Range(seq) == {seq[i] : i \in 1..Len(seq)}

Payload(frame) == frame[2]

IsContent(frame) == "content" \in DOMAIN Payload(frame)

IsDone(frame) == "done" \in DOMAIN Payload(frame)

IsError(frame) == "error" \in DOMAIN Payload(frame)

IsTerminal(frame) == IsDone(frame) \/ IsError(frame)

Last(seq) == seq[Len(seq)]

RECURSIVE Concat(_)
Concat(seq) == IF seq = <<>> THEN "" ELSE seq[1] \o Concat(Tail(seq))

AssistantMessages(r) == {m \in messages : m.req = r /\ m.role = "assistant"}

UsageRecordsOf(r) == {u \in usage_records : u.req = r}

\* C1: the frames of a stream consumed to its end are zero or more content
\* frames followed by exactly one terminal frame (done or error); at no time
\* does a frame follow a terminal one.
C1_OneTerminalFrame ==
    \A r \in Requests :
        /\ \A i \in 1..(Len(frames[r]) - 1) : IsContent(frames[r][i])
        /\ pc[r] = "closed" =>
              /\ Len(frames[r]) >= 1
              /\ IsTerminal(Last(frames[r]))
        /\ pc[r] # "closed" => \A i \in 1..Len(frames[r]) : IsContent(frames[r][i])

\* A stream whose adapter raised after a fragment has ended: content, then error.
C1_Witness ==
    \E r \in Requests :
        /\ pc[r] = "closed"
        /\ "provider_error" \in Range(events[r])
        /\ Len(frames[r]) >= 2
        /\ IsError(Last(frames[r]))

\* C2: when both lookups succeed, check_quota returns the table limit of the
\* tier (the free limit for a tier outside the table), remaining =
\* max(0, limit - used) and has_quota = (remaining > 0).
C2_QuotaArithmetic ==
    \A r \in Requests :
        (/\ quota_info[r] # <<>>
         /\ lookup[r][1].profile.kind = "row"
         /\ lookup[r][1].usage.kind \in {"ok", "null"}) =>
            LET q == quota_info[r][1]
                row == lookup[r][1].profile.data
                u == lookup[r][1].usage
                tier == IF "subscription_tier" \in DOMAIN row
                        THEN row.subscription_tier ELSE "free"
                limit == CASE tier = "pro" -> 1000000
                           [] tier = "enterprise" -> 10000000
                           [] OTHER -> 100000
                used == IF u.kind = "null" THEN 0 ELSE u.data
            IN  /\ q.tokens_limit = limit
                /\ q.tokens_used = used
                /\ q.tokens_remaining = (IF used >= limit THEN 0 ELSE limit - used)
                /\ q.has_quota = (q.tokens_remaining > 0)

\* check_quota has answered for a user whose usage is above the limit.
C2_Witness ==
    \E r \in Requests :
        /\ quota_info[r] # <<>>
        /\ lookup[r][1].profile.kind = "row"
        /\ lookup[r][1].usage.kind = "ok"
        /\ quota_info[r][1].tokens_used > quota_info[r][1].tokens_limit
        /\ quota_info[r][1].tokens_remaining = 0
        /\ ~quota_info[r][1].has_quota

\* Values of estimated_tokens a caller of enforce_quota may pass.
EstimatedTokens == {1, 1000, 20000000}

\* C3: enforce_quota raises exactly when check_quota returned has_quota =
\* false; with has_quota true it returns for every estimated_tokens, also
\* when fewer tokens remain than estimated.
C3_EnforceIffNoQuota ==
    \A r \in Requests :
        quota_info[r] # <<>> =>
            LET q == quota_info[r][1]
            IN  /\ \A est \in EstimatedTokens : enforce_quota(q, est).raises = ~q.has_quota
                /\ pc[r] # "enforce_quota" =>
                     IF q.has_quota
                     THEN pc[r] = "create_provider" /\ raised[r] = <<>>
                     ELSE /\ pc[r] = "done"
                          /\ Len(raised[r]) = 1
                          /\ raised[r][1].cls = "ValueError"
                          /\ response[r].kind = "HTTPException"

\* enforce_quota returned although fewer tokens remain than the estimate.
C3_Witness ==
    \E r \in Requests :
        /\ pc[r] = "create_provider"
        /\ quota_info[r] # <<>>
        /\ quota_info[r][1].has_quota
        /\ quota_info[r][1].tokens_remaining < DefaultEstimatedTokens
        /\ quota_info[r][1].tokens_remaining > 0

\* C4: a request calls the adapter (generate_response or stream_response)
\* only after its own enforce_quota has returned without raising.
C4_QuotaBeforeProvider ==
    \A r \in Requests :
        \A i \in 1..Len(events[r]) :
            events[r][i] = "provider_call" =>
                \E j \in 1..(i - 1) : events[r][j] = "quota_ok"

\* A buffered and a streaming request both have their provider call in flight.
C4_Witness ==
    \E r, q \in Requests :
        /\ pc[r] = "await_generate"
        /\ pc[q] = "stream_next"
        /\ "provider_call" \in Range(events[r])
        /\ "provider_call" \in Range(events[q])

\* C5: when the adapter's stream raises, the frames are the content frames
\* of the fragments yielded so far and then one error frame with the
\* exception's message; no usage record and no assistant message is written.
C5_AdapterFailureFrames ==
    \A r \in Requests :
        (pc[r] = "closed" /\ "provider_error" \in Range(events[r])) =>
            /\ Len(frames[r]) = Len(fragments[r]) + 1
            /\ \A i \in 1..Len(fragments[r]) :
                  frames[r][i] = <<"data: ", [content |-> fragments[r][i]], "\n\n">>
            /\ Len(raised[r]) = 1
            /\ raised[r][1] \in AdapterErrors
            /\ Last(frames[r]) = <<"data: ", [error |-> raised[r][1].msg], "\n\n">>
            /\ UsageRecordsOf(r) = {}
            /\ AssistantMessages(r) = {}

\* The adapter yielded one fragment and then raised a timeout.
C5_Witness ==
    \E r \in Requests :
        /\ pc[r] = "closed"
        /\ "provider_error" \in Range(events[r])
        /\ Len(fragments[r]) = 1
        /\ raised[r] = <<Exception(<<"provider timeout">>)>>

\* C6: when the stream completes, tokens_used of the done frame is
\* len(text) // 4 of the in-order concatenation of the fragments yielded.
C6_DoneTokens ==
    \A r \in Requests :
        (pc[r] = "closed" /\ IsDone(Last(frames[r]))) =>
            Payload(Last(frames[r])).tokens_used = Len(Concat(fragments[r])) \div 4

\* "Hel", "lo" were streamed and the done frame counts the tokens of "Hello".
C6_Witness ==
    \E r \in Requests :
        /\ pc[r] = "closed"
        /\ fragments[r] = <<"Hel", "lo">>
        /\ IsDone(Last(frames[r]))
        /\ Payload(Last(frames[r])).tokens_used = 1

\* The content frames among the frames of request r.
ContentFrames(r) == SelectSeq(frames[r], IsContent)

\* C7: the content frames are the fragments the adapter yielded, one frame
\* `data: {"content": f}` per fragment and in the same order, and a frame is
\* out before the next fragment is requested.
C7_FramePerFragment ==
    \A r \in Requests :
        LET cf == ContentFrames(r)
        IN  /\ Len(cf) = IF pc[r] = "emit_content"
                         THEN Len(fragments[r]) - 1 ELSE Len(fragments[r])
            /\ \A i \in 1..Len(cf) :
                  cf[i] = <<"data: ", [content |-> fragments[r][i]], "\n\n">>
            /\ \A i \in 1..Len(cf) : frames[r][i] = cf[i]

\* Two different fragments have been emitted and the next one is requested.
C7_Witness ==
    \E r \in Requests :
        /\ pc[r] = "stream_next"
        /\ Len(fragments[r]) >= 2
        /\ fragments[r][1] # fragments[r][2]
        /\ Len(ContentFrames(r)) = Len(fragments[r])

\* C8: if the usage lookup raises, check_quota returns has_quota = true with
\* limit, used and remaining zero, and enforce_quota admits the request.
C8_FailOpen ==
    \A r \in Requests :
        (lookup[r] # <<>> /\ lookup[r][1].usage.kind = "raise") =>
            /\ quota_info[r][1] = [tier |-> "unknown", tokens_limit |-> 0, tokens_used |-> 0,
                                   tokens_remaining |-> 0, has_quota |-> TRUE]
            /\ pc[r] \in {"enforce_quota", "create_provider"}
            /\ raised[r] = <<>>

\* The usage lookup raised and enforce_quota has admitted the request.
C8_Witness ==
    \E r \in Requests :
        /\ lookup[r] # <<>>
        /\ lookup[r][1].usage.kind = "raise"
        /\ pc[r] = "create_provider"
        /\ "quota_ok" \in Range(events[r])

\* The profile lookup of request r raised or returned no row.
ProfileFailed(r) == lookup[r] # <<>> /\ lookup[r][1].profile.kind \in {"raise", "none"}

\* The profile row of request r has no subscription_tier.
TierAbsent(r) ==
    /\ lookup[r] # <<>>
    /\ lookup[r][1].profile.kind = "row"
    /\ "subscription_tier" \notin DOMAIN lookup[r][1].profile.data

\* The profile row of request r has a null subscription_tier.
TierNull(r) ==
    /\ lookup[r] # <<>>
    /\ lookup[r][1].profile.kind = "row"
    /\ "subscription_tier" \in DOMAIN lookup[r][1].profile.data
    /\ lookup[r][1].profile.data.subscription_tier = None

\* C9 as claimed: a failed profile lookup, or an absent profile or tier,
\* gives tier free and the free limit of 100,000.
C9_ProfileFailureGivesFree ==
    \A r \in Requests :
        (quota_info[r] # <<>> /\ (ProfileFailed(r) \/ TierAbsent(r))) =>
            /\ quota_info[r][1].tier = "free"
            /\ quota_info[r][1].tokens_limit = 100000

\* C9 as amended: a profile row without subscription_tier gives tier free
\* and the free limit, with remaining and has_quota computed from the usage
\* when the usage lookup succeeds; a profile lookup that raises or returns no
\* row makes check_quota fail open (tier unknown, zero counts, has_quota
\* true); a null subscription_tier keeps the free limit under the null tier.
C9_ProfileFailureFailsOpen ==
    \A r \in Requests :
        quota_info[r] # <<>> =>
            LET q == quota_info[r][1]
                u == lookup[r][1].usage
                used == IF u.kind = "ok" THEN u.data ELSE 0
            IN  /\ ProfileFailed(r) =>
                     q = [tier |-> "unknown", tokens_limit |-> 0, tokens_used |-> 0,
                          tokens_remaining |-> 0, has_quota |-> TRUE]
                /\ (TierNull(r) /\ u.kind # "raise") =>
                     q.tier = None /\ q.tokens_limit = 100000
                /\ (TierAbsent(r) /\ u.kind # "raise") =>
                     /\ q.tier = "free"
                     /\ q.tokens_limit = 100000
                     /\ q.tokens_used = used
                     /\ q.tokens_remaining = (IF used >= 100000 THEN 0 ELSE 100000 - used)
                     /\ q.has_quota = (used < 100000)

\* The profile lookup raised and the request was admitted with tier unknown.
C9_Witness ==
    \E r \in Requests :
        /\ ProfileFailed(r)
        /\ lookup[r][1].profile.kind = "raise"
        /\ pc[r] = "create_provider"
        /\ quota_info[r][1].tier = "unknown"

\* C10: a failing usage insert is swallowed: the buffered path still returns
\* the ChatResponse, the streaming path still ends with the done frame, and
\* no exception, error response or error frame comes of it.
C10_UsageFailureSwallowed ==
    \A r \in Requests :
        "usage_failed" \in Range(events[r]) =>
            /\ raised[r] = <<>>
            /\ UsageRecordsOf(r) = {}
            /\ IF request[r].stream
               THEN /\ pc[r] = "closed"
                    /\ IsDone(Last(frames[r]))
                    /\ \A i \in 1..Len(frames[r]) : ~IsError(frames[r][i])
               ELSE /\ pc[r] = "done"
                    /\ response[r].kind = "ChatResponse"
                    /\ response[r].status_code = 200

\* The usage insert failed for a buffered and for a streaming request.
C10_Witness ==
    \E r, q \in Requests :
        /\ "usage_failed" \in Range(events[r])
        /\ response[r].kind = "ChatResponse"
        /\ "usage_failed" \in Range(events[q])
        /\ pc[q] = "closed"
        /\ IsDone(Last(frames[q]))

\* C11: in both paths the usage write of a request comes strictly after the
\* provider produced its final content (generate_response returned, or the
\* adapter's stream is exhausted), never while fragments are still produced.
C11_UsageAfterFinalContent ==
    \A r \in Requests :
        /\ \A i \in 1..Len(events[r]) :
              events[r][i] \in {"usage_recorded", "usage_failed"} =>
                  \E j \in 1..(i - 1) : events[r][j] = "provider_final"
        /\ UsageRecordsOf(r) # {} =>
              /\ "provider_final" \in Range(events[r])
              /\ pc[r] \in {"done", "closed"}
              /\ request[r].stream =>
                    /\ full_content[r] = Concat(fragments[r])
                    /\ Len(ContentFrames(r)) = Len(fragments[r])
              /\ ~request[r].stream => completion[r] \in CompletionResults

\* A buffered and a streaming request have both written their usage.
C11_Witness ==
    \E r, q \in Requests :
        /\ UsageRecordsOf(r) # {}
        /\ response[r].kind = "ChatResponse"
        /\ UsageRecordsOf(q) # {}
        /\ pc[q] = "closed"
        /\ Len(fragments[q]) >= 1

\* C12: when the client disconnects while the generator is mid-stream, before
\* any terminal frame, no usage record is written for the request and no
\* terminal frame is emitted, then or later.
C12_DisconnectWritesNothing ==
    \A r \in Requests :
        "cancelled" \in Range(events[r]) =>
            /\ pc[r] = "cancelled"
            /\ UsageRecordsOf(r) = {}
            /\ \A i \in 1..Len(events[r]) :
                  events[r][i] \notin {"usage_recorded", "usage_failed"}
            /\ \A i \in 1..Len(frames[r]) : ~IsTerminal(frames[r][i])
            /\ raised[r] = <<>>

\* The client left after the first content frame, while the other request
\* streamed to its done frame and wrote its usage.
C12_Witness ==
    \E r, q \in Requests :
        /\ pc[r] = "cancelled"
        /\ Len(frames[r]) >= 1
        /\ pc[q] = "closed"
        /\ IsDone(Last(frames[q]))
        /\ UsageRecordsOf(q) # {}

\* The request failed inside the generator, after the StreamingResponse was
\* returned and the transport began to iterate it.
FailedInStream(r) ==
    raised[r] # <<>> /\ request[r].stream /\ "provider_call" \in Range(events[r])

\* C13 as claimed: in the streaming path an error before any content frame
\* is a single structured failure response, not an error frame in the 200
\* event stream; only errors after content are a terminal error frame.
C13_ErrorBeforeContentIsStructured ==
    \A r \in Requests :
        (raised[r] # <<>> /\ ContentFrames(r) = <<>>) =>
            /\ response[r].kind = "HTTPException"
            /\ frames[r] = <<>>

\* C13 as amended: an error raised before the StreamingResponse is returned
\* (quota, adapter resolution, conversation or user-message persistence) is
\* a single structured failure response and no frame is sent; an error
\* raised once the generator runs, also before the first fragment, is the
\* terminal error frame of the 200 event stream.
C13_ErrorAfterStreamStartIsFrame ==
    \A r \in Requests :
        raised[r] # <<>> =>
            IF FailedInStream(r)
            THEN /\ response[r].kind = "StreamingResponse"
                 /\ response[r].status_code = 200
                 /\ pc[r] = "closed"
                 /\ Len(raised[r]) = 1
                 /\ Last(frames[r]) = <<"data: ", [error |-> raised[r][1].msg], "\n\n">>
                 /\ \A i \in 1..(Len(frames[r]) - 1) : IsContent(frames[r][i])
            ELSE /\ response[r].kind = "HTTPException"
                 /\ response[r].status_code \in {400, 500}
                 /\ frames[r] = <<>>
                 /\ pc[r] = "done"

\* The adapter failed before its first fragment: the 200 event stream holds
\* the error frame alone; the other request was refused before streaming.
C13_Witness ==
    \E r, q \in Requests :
        /\ pc[r] = "closed"
        /\ "provider_error" \in Range(events[r])
        /\ Len(frames[r]) = 1
        /\ IsError(frames[r][1])
        /\ response[r].kind = "StreamingResponse"
        /\ response[q].kind = "HTTPException"
        /\ "provider_call" \notin Range(events[q])

\* C14: in the buffered path every failure of the adapter's
\* generate_response call, whatever exception the provider client raised,
\* ends the request with a 500-class generic completion failure, never with
\* a 400-class error.
C14_AdapterFailureIs500 ==
    \A r \in Requests :
        (~request[r].stream /\ "provider_error" \in Range(events[r])) =>
            /\ pc[r] = "done"
            /\ response[r].kind = "HTTPException"
            /\ response[r].status_code = 500

\* The key the configuration holds for the provider of request r.
ConfiguredKey(r) ==
    IF request[r].provider = "claude" THEN settings.anthropic_api_key
    ELSE IF request[r].provider = "openai" THEN settings.openai_api_key
    ELSE IF request[r].provider = "gemini" THEN settings.google_api_key
    ELSE ""

\* C15: create_provider returns an adapter if and only if the provider is
\* one of claude, openai, gemini and that provider's configured key is
\* non-empty; otherwise it raises before constructing any adapter and
\* without contacting any provider.
C15_AdapterIffKnownAndKeyed ==
    \A r \in Requests :
        pc[r] = "done" =>
            LET known == request[r].provider \in {"claude", "openai", "gemini"}
            IN  /\ (provider[r] # NoAdapter) <=> (known /\ ConfiguredKey(r) # "")
                /\ (provider[r] # NoAdapter) <=> (raised[r] = <<>>)
                /\ provider[r] # NoAdapter =>
                      /\ provider[r].cls = request[r].provider
                      /\ provider[r].api_key = ConfiguredKey(r)
                /\ provider[r] = NoAdapter =>
                      /\ Len(raised[r]) = 1
                      /\ raised[r][1].cls = "ValueError"
                      /\ "provider_call" \notin Range(events[r])

\* One call returned an adapter, one raised for an empty key, under the
\* same configuration.
C15_Witness ==
    \E r, q \in Requests :
        /\ pc[r] = "done" /\ pc[q] = "done"
        /\ provider[r] # NoAdapter
        /\ request[q].provider \in AIProvider
        /\ ConfiguredKey(q) = ""
        /\ raised[q] = <<ValueError(<<KeyMissingMessage[request[q].provider]>>)>>

StoreFailed(r) == \E i \in 1..Len(raised[r]) : raised[r][i] = Exception(<<"store unavailable">>)

\* C17: a conversation/message store failure is fatal to the request. On the
\* buffered path a failed conversation, user-message or assistant-message
\* insert means no ChatResponse and a failure response, so a ChatResponse
\* implies all of them were stored; on the streaming path a failed
\* assistant-message insert makes the terminal frame error, not done.
C17_StoreFailureFatal ==
    \A r \in Requests :
        /\ StoreFailed(r) =>
              /\ response[r].kind # "ChatResponse"
              /\ IF response[r].kind = "StreamingResponse"
                 THEN /\ pc[r] = "closed"
                      /\ IsError(Last(frames[r]))
                      /\ \A i \in 1..Len(frames[r]) : ~IsDone(frames[r][i])
                      /\ AssistantMessages(r) = {}
                 ELSE /\ pc[r] = "done"
                      /\ response[r].kind = "HTTPException"
                      /\ response[r].status_code = 500
        /\ response[r].kind = "ChatResponse" =>
              /\ raised[r] = <<>>
              /\ request[r].conversation_id = None =>
                    \E c \in conversations : c.id = conversation_id[r]
              /\ \E m \in messages : m.req = r /\ m.role = "user"
              /\ \E m \in AssistantMessages(r) : m.content = response[r].content
        /\ (pc[r] = "closed" /\ IsDone(Last(frames[r]))) =>
              \E m \in AssistantMessages(r) : m.content = full_content[r]

\* The assistant insert failed for a buffered request, answered 500, and for
\* a streaming request after its stream completed, closed by an error frame.
C17_Witness ==
    \E r, q \in Requests :
        /\ StoreFailed(r)
        /\ "provider_final" \in Range(events[r])
        /\ response[r].kind = "HTTPException"
        /\ StoreFailed(q)
        /\ "provider_final" \in Range(events[q])
        /\ pc[q] = "closed"
        /\ IsError(Last(frames[q]))

\* C18: whenever enforce_quota rejects, the raised error, and the response
\* made of it, carries the tokens_used, tokens_limit and tier that
\* check_quota computed for that same call.
C18_RejectionCarriesQuota ==
    \A r \in Requests :
        "quota_rejected" \in Range(events[r]) =>
            LET q == quota_info[r][1]
                u == lookup[r][1].usage
                msg == <<"Quota exceeded. You have used ", ToString(q.tokens_used),
                         " of your ", ToString(q.tokens_limit), " token limit for the ",
                         q.tier, " tier this month.">>
            IN  /\ lookup[r][1].profile.kind = "row"
                /\ u.kind = "ok"
                /\ q.tokens_used = u.data
                /\ q.tier = (IF "subscription_tier" \in DOMAIN lookup[r][1].profile.data
                             THEN lookup[r][1].profile.data.subscription_tier
                             ELSE "free")
                /\ q.tokens_limit =
                      (IF q.tier = "pro" THEN 1000000
                       ELSE IF q.tier = "enterprise" THEN 10000000 ELSE 100000)
                /\ q.tokens_used >= q.tokens_limit
                /\ raised[r] = <<[cls |-> "ValueError", msg |-> msg]>>
                /\ response[r] = [kind |-> "HTTPException", status_code |-> 400,
                                  detail |-> msg]

\* A free-tier user at exactly 100,000 tokens used is rejected with a
\* message holding "100000" and "free".
C18_Witness ==
    \E r \in Requests :
        /\ "quota_rejected" \in Range(events[r])
        /\ quota_info[r][1].tier = "free"
        /\ quota_info[r][1].tokens_used = 100000
        /\ raised[r][1].msg[2] = "100000"
        /\ raised[r][1].msg[6] = "free"

\* C19: every validated ChatRequest has a non-empty message sequence, and for
\* every admitted request the message persisted as the new user turn is the
\* request's last message (its content, with role user), written before the
\* provider is called.
C19_LastMessagePersisted ==
    \A r \in Requests :
        /\ request[r].messages # <<>>
        /\ \A i \in 1..Len(events[r]) :
              events[r][i] = "provider_call" =>
                  \E j \in 1..(i - 1) : events[r][j] = "user_message_saved"
        /\ "user_message_saved" \in Range(events[r]) =>
              \E m \in messages :
                  /\ m.req = r
                  /\ m.role = "user"
                  /\ m.content = Last(request[r].messages).content

\* C20: an unhandled internal exception in the completion request path
\* gives a generic internal-error response whose body does not depend on the
\* exception: two requests failing with different internal exceptions
\* receive identical response bodies.
C20_GenericInternalError ==
    \A r, q \in Requests :
        (/\ response[r].kind = "HTTPException" /\ response[r].status_code = 500
         /\ response[q].kind = "HTTPException" /\ response[q].status_code = 500) =>
            response[r].detail = response[q].detail

\* C21: for every adapter variant count_tokens(text) is the length of the
\* text integer-divided by 4: non-negative, the same for identical text, and
\* non-decreasing in the length of the text.
C21_CountTokens ==
    \A r \in Requests :
        pc[r] = "done" =>
            /\ tokens_used[r] >= 0
            /\ 4 * tokens_used[r] <= Len(full_content[r])
            /\ Len(full_content[r]) < 4 * tokens_used[r] + 4
            /\ \A q \in Requests :
                  pc[q] = "done" =>
                      /\ full_content[q] = full_content[r] => tokens_used[q] = tokens_used[r]
                      /\ Len(full_content[q]) <= Len(full_content[r]) =>
                            tokens_used[q] <= tokens_used[r]

\* A text of 3 characters counted 0 by one adapter class and a text of 9
\* characters counted 2 by another.
C21_Witness ==
    \E r, q \in Requests :
        /\ pc[r] = "done" /\ pc[q] = "done"
        /\ request[r].provider # request[q].provider
        /\ Len(full_content[r]) = 3 /\ tokens_used[r] = 0
        /\ Len(full_content[q]) = 9 /\ tokens_used[q] = 2

\* What request r owns and produces: its adapter, quota result, accumulator,
\* frames, token count, assistant message and usage record.
Outcome(r) ==
    <<provider[r], quota_info[r], full_content[r], frames[r], tokens_used[r],
      AssistantMessages(r), UsageRecordsOf(r)>>

\* The outcome of r is a function of r's own adapter output alone.
OwnOutputOnly(r) ==
    /\ Len(ContentFrames(r)) <= Len(fragments[r])
    /\ \A i \in 1..Len(ContentFrames(r)) :
          Payload(ContentFrames(r)[i]).content = fragments[r][i]
    /\ full_content[r] = Concat(SubSeq(fragments[r], 1, Len(ContentFrames(r))))
    /\ \A i \in 1..Len(frames[r]) :
          IsDone(frames[r][i]) =>
              Payload(frames[r][i]).tokens_used = Len(Concat(fragments[r])) \div 4
    /\ \A m \in AssistantMessages(r) :
          IF request[r].stream
          THEN /\ m.content = Concat(fragments[r])
               /\ m.tokens_used = Len(Concat(fragments[r])) \div 4
          ELSE /\ m.content = completion[r].content
               /\ m.tokens_used = completion[r].tokens_used
    /\ \A u \in UsageRecordsOf(r) :
          /\ u.model = provider[r].model
          /\ u.tokens_used = (IF request[r].stream
                               THEN Len(Concat(fragments[r])) \div 4
                               ELSE completion[r].tokens_used)

\* C22: with requests interleaved at their suspension points, each request's
\* frames, accumulated content, done tokens_used, assistant message and usage
\* record depend only on its own adapter output, and no step of one request
\* reads or writes another request's accumulator, adapter or quota result:
\* a step that is not r's leaves all of r's outcome as it was.
C22_RequestIsolation ==
    [][\A r \in Requests :
          /\ OwnOutputOnly(r)
          /\ pc'[r] = pc[r] => Outcome(r)' = Outcome(r)]_vars

\* Two streams interleaved fragment by fragment, with different adapter
\* output, both ended by done: each stored its own content.
C22_Witness ==
    /\ fragments[1] = <<"Hel", "lo">>
    /\ fragments[2] = <<"lo", "Hel">>
    /\ pc[1] = "closed" /\ pc[2] = "closed"
    /\ IsDone(Last(frames[1])) /\ IsDone(Last(frames[2]))
    /\ \E m \in AssistantMessages(1) : m.content = "Hello"
    /\ \E m \in AssistantMessages(2) : m.content = "loHel"

\* C23: GET /api/v1/health always responds 200 with status "healthy" and
\* GET /api/v1/ready always responds 200 with status "ready", whatever the
\* configuration and the recorded usage and whoever calls; neither consults
\* the store, the quota source or a provider.
C23_HealthAlwaysOk ==
    \A r \in Requests :
        pc[r] = "done" =>
            /\ response[r].status_code = 200
            /\ events[r][2] = "GET /api/v1/health" => response[r].content.status = "healthy"
            /\ events[r][2] = "GET /api/v1/ready" => response[r].content.status = "ready"
            /\ Len(events[r]) = 2
            /\ lookup[r] = <<>> /\ quota_info[r] = <<>> /\ provider[r] = NoAdapter
            /\ conversations = {} /\ messages = {} /\ usage_records = {}

\* An anonymous caller got "ready" with no provider key configured, and
\* "healthy" as well.
C23_Witness ==
    \E r, q \in Requests :
        /\ \A p \in AIProvider : settings[KeyField[p]] = ""
        /\ events[r] = <<"anonymous", "GET /api/v1/ready">>
        /\ response[r].content.status = "ready"
        /\ events[q] = <<"anonymous", "GET /api/v1/health">>
        /\ response[q].content.status = "healthy"

\* Request r was refused at admission: enforce_quota or create_provider raised.
AdmissionFailed(r) == pc[r] = "done" /\ provider[r] = NoAdapter /\ raised[r] # <<>>

\* C24: a request that fails admission (quota exceeded, or adapter
\* resolution failure) ends with a 400-class error and leaves all state
\* unchanged: no conversation created, no message inserted, no provider
\* call made, no usage record written.
C24_AdmissionFailureLeavesNoTrace ==
    \A r \in Requests :
        AdmissionFailed(r) =>
            /\ response[r].kind = "HTTPException"
            /\ response[r].status_code = 400
            /\ Len(raised[r]) = 1
            /\ response[r].detail = raised[r][1].msg
            /\ raised[r][1].msg # <<>>
            /\ \A c \in conversations : c.id # NewConversationId(r)
            /\ conversation_id[r] = None
            /\ \A m \in messages : m.req # r
            /\ UsageRecordsOf(r) = {}
            /\ \A i \in 1..Len(events[r]) : events[r][i] \in {"quota_ok", "quota_rejected"}
            /\ frames[r] = <<>>

\* A request was refused for its quota after the other one completed and
\* used the last token: the store holds rows of the other request only.
C24_Witness ==
    \E r, q \in Requests :
        /\ AdmissionFailed(r)
        /\ events[r] = <<"quota_rejected">>
        /\ response[r].status_code = 400
        /\ UsageRecordsOf(q) # {}
        /\ conversations # {} /\ messages # {}

\* Request r issues its provider call in this step.
IssuesProviderCall(r) == events'[r] = Append(events[r], "provider_call")

\* C25 as claimed: under any interleaving of concurrent requests of the same
\* user, with quota lookups succeeding, no provider call is issued for that
\* user at a moment when the recorded monthly usage is already at or above
\* the tier limit.
C25_NoCallOverLimit ==
    [][\A r \in Requests : IssuesProviderCall(r) => get_monthly_usage < 100000]_vars

\* C25 as amended: a provider call is issued for a request only after that
\* request's own quota check read the usage recorded at that moment and found
\* it below the tier limit; the check is not repeated, and the usage written
\* since by concurrent requests of the same user may have reached the limit
\* when the call is issued.
C25_CallAfterOwnCheckBelowLimit ==
    [][\A r \in Requests :
          /\ (lookup[r] = <<>> /\ lookup'[r] # <<>>) =>
                /\ quota_info'[r][1].tokens_used = get_monthly_usage
                /\ quota_info'[r][1].tokens_limit = 100000
          /\ events'[r] = Append(events[r], "quota_ok") =>
                /\ quota_info[r][1].tokens_used < 100000
                /\ quota_info[r][1].tokens_used <= get_monthly_usage
          /\ IssuesProviderCall(r) => "quota_ok" \in Range(events[r])
          /\ get_monthly_usage' >= get_monthly_usage]_vars

\* A request admitted at 99,999 used is about to call its provider while the
\* other request's usage write has brought the user to the limit.
C25_Witness ==
    \E r, q \in Requests :
        /\ r # q
        /\ pc[r] \in {"generate", "stream_open"}
        /\ "quota_ok" \in Range(events[r])
        /\ "quota_ok" \in Range(events[q])
        /\ UsageRecordsOf(q) # {}
        /\ get_monthly_usage >= 100000

\* The in-order concatenation of the content frames sent for request r.
SentContent(r) == Concat([i \in 1..Len(ContentFrames(r)) |-> Payload(ContentFrames(r)[i]).content])

\* C26: when a stream completes successfully, the persisted assistant
\* message holds the in-order concatenation of the content frames sent, and
\* the tokens_used of that message, of the usage record and of the done frame
\* are one and the same value.
C26_StreamRecordsAgree ==
    \A r \in Requests :
        (pc[r] = "closed" /\ IsDone(Last(frames[r]))) =>
            LET n == Payload(Last(frames[r])).tokens_used
            IN  /\ Cardinality(AssistantMessages(r)) = 1
                /\ \A m \in AssistantMessages(r) :
                      /\ m.content = SentContent(r)
                      /\ m.tokens_used = n
                /\ \A u \in UsageRecordsOf(r) : u.tokens_used = n
                /\ Cardinality(UsageRecordsOf(r)) <= 1
                /\ "usage_recorded" \in Range(events[r]) => UsageRecordsOf(r) # {}

\* A stream of "Hel", "lo" completed: message "Hello", and 1 token in the
\* message, the usage record and the done frame.
C26_Witness ==
    \E r \in Requests :
        /\ pc[r] = "closed"
        /\ Len(frames[r]) = 3
        /\ Payload(Last(frames[r])) = [done |-> TRUE, tokens_used |-> 1]
        /\ \E m \in AssistantMessages(r) : m.content = "Hello" /\ m.tokens_used = 1
        /\ \E u \in UsageRecordsOf(r) : u.tokens_used = 1

\* The usage writes request r attempted, successful or not.
UsageAttempts(r) == SelectSeq(events[r], LAMBDA e : e \in {"usage_recorded", "usage_failed"})

\* Request r completed successfully: ChatResponse returned or done frame emitted.
Succeeded(r) ==
    \/ response[r].kind = "ChatResponse"
    \/ pc[r] = "closed" /\ IsDone(Last(frames[r]))

\* Request r ended in a failure response or an error frame.
EndedInFailure(r) ==
    \/ response[r].kind = "HTTPException"
    \/ pc[r] = "closed" /\ IsError(Last(frames[r]))

\* C27: each request attempts at most one usage-record write: exactly one
\* when it completes successfully, carrying the tokens_used reported to the
\* caller, and none when it ends in a failure response or an error frame.
C27_OneUsageWrite ==
    \A r \in Requests :
        /\ Len(UsageAttempts(r)) <= 1
        /\ Cardinality(UsageRecordsOf(r)) <= Len(UsageAttempts(r))
        /\ Succeeded(r) =>
              /\ Len(UsageAttempts(r)) = 1
              /\ \A u \in UsageRecordsOf(r) :
                    u.tokens_used = (IF response[r].kind = "ChatResponse"
                                     THEN response[r].tokens_used
                                     ELSE Payload(Last(frames[r])).tokens_used)
              /\ UsageAttempts(r) = <<"usage_recorded">> => UsageRecordsOf(r) # {}
        /\ EndedInFailure(r) =>
              /\ UsageAttempts(r) = <<>>
              /\ UsageRecordsOf(r) = {}

\* A buffered request returned its ChatResponse after one usage write of the
\* 2 tokens it reports, and a stream ended by an error frame wrote none.
C27_Witness ==
    \E r, q \in Requests :
        /\ response[r].kind = "ChatResponse"
        /\ response[r].tokens_used = 2
        /\ UsageAttempts(r) = <<"usage_recorded">>
        /\ \E u \in UsageRecordsOf(r) : u.tokens_used = 2
        /\ pc[q] = "closed"
        /\ IsError(Last(frames[q]))
        /\ Len(frames[q]) >= 2
        /\ UsageAttempts(q) = <<>>

\* The rows request r persisted before its provider call are in the store.
TurnStored(r) ==
    /\ "conversation_created" \in Range(events[r]) =>
          /\ request[r].conversation_id = None
          /\ conversation_id[r] = NewConversationId(r)
          /\ \E c \in conversations : c.id = conversation_id[r]
    /\ "user_message_saved" \in Range(events[r]) =>
          \E m \in messages :
              /\ m.req = r /\ m.role = "user"
              /\ m.conversation_id = conversation_id[r]
              /\ m.content = Last(request[r].messages).content

\* C28: the conversation (when the request carries no conversation id) and
\* the user message are persisted before the provider is called and are
\* never rolled back: when the provider call or stream then fails they
\* remain stored, with no assistant message and no usage record.
C28_TurnPersistedNotRolledBack ==
    \A r \in Requests :
        /\ TurnStored(r)
        /\ \A i \in 1..Len(events[r]) :
              events[r][i] = "provider_call" =>
                  /\ \E j \in 1..(i - 1) : events[r][j] = "user_message_saved"
                  /\ request[r].conversation_id = None =>
                        \E j \in 1..(i - 1) : events[r][j] = "conversation_created"
        /\ "provider_error" \in Range(events[r]) =>
              /\ "user_message_saved" \in Range(events[r])
              /\ AssistantMessages(r) = {}
              /\ UsageRecordsOf(r) = {}

\* The buffered call of one request and the stream of the other both
\* failed: both new conversations and both user messages are still stored.
C28_Witness ==
    \E r, q \in Requests :
        /\ r # q
        /\ "provider_error" \in Range(events[r])
        /\ response[r].kind = "HTTPException"
        /\ "provider_error" \in Range(events[q])
        /\ pc[q] = "closed"
        /\ Cardinality(conversations) = 2
        /\ Cardinality(messages) = 2

====
